---- MODULE Spec2Model ----
\* Hermes reporting service: the report-assembly pipeline of generatepdf.py
\* (upstream fetch, aggregation, content-block emission, TOC notification)
\* and the POST /report handler of main.py with its store.
EXTENDS Integers, Sequences, FiniteSets, TLC

\* ---------------------------------------------------------------------
\* Bounds of the model
\* ---------------------------------------------------------------------
\* number of distinct calendar dates a DateKeyedCategoryMapping may carry
MaxDates == 2
\* largest count recorded for one category on one date
MaxCount == 1
\* largest alert count of a ForecastSummary
MaxForecast == 1
\* number of POST /report calls in one behaviour
MaxRequests == 2
\* longest filter string, in characters, of the probed filter list
MaxStrLen == 2
\* longest probed filter list
MaxListLen == 1

\* ---------------------------------------------------------------------
\* Python dicts: insertion-ordered sequences of <<key, value>> pairs
\* with pairwise distinct keys.
\* ---------------------------------------------------------------------
DictKeys(d) == {d[i][1] : i \in DOMAIN d}

DictHas(d, k) == \E i \in DOMAIN d : d[i][1] = k

\* d.get(k, default)
DictGet(d, k, default) ==
    IF DictHas(d, k) THEN d[CHOOSE i \in DOMAIN d : d[i][1] = k][2] ELSE default

\* d[k] = v : overwrite in place when the key exists, append otherwise
DictPut(d, k, v) ==
    IF DictHas(d, k)
    THEN [i \in DOMAIN d |-> IF d[i][1] = k THEN <<k, v>> ELSE d[i]]
    ELSE Append(d, <<k, v>>)

\* list(d.values()), list(d.keys())
DictValues(d) == [i \in DOMAIN d |-> d[i][2]]
DictKeyList(d) == [i \in DOMAIN d |-> d[i][1]]

RECURSIVE SumSeq(_)
SumSeq(s) == IF s = <<>> THEN 0 ELSE Head(s) + SumSeq(Tail(s))

\* ---------------------------------------------------------------------
\* sorted(): ascending insertion sort of a sequence of keys
\* ---------------------------------------------------------------------
RECURSIVE InsertSorted(_, _)
InsertSorted(s, x) ==
    IF s = <<>> THEN <<x>>
    ELSE IF x <= Head(s) THEN <<x>> \o s
    ELSE <<Head(s)>> \o InsertSorted(Tail(s), x)

\* the date keys left in the order the mapping lists them
unsorted(s) == s

RECURSIVE sorted(_)
sorted(s) == IF s = <<>> THEN <<>> ELSE InsertSorted(sorted(Tail(s)), Head(s))

\* ---------------------------------------------------------------------
\* aggregate_grouped_values
\* ---------------------------------------------------------------------
\* inner loop that assigns instead of adding: aggregated[key] = value
RECURSIVE AggregateDayOverwrite(_, _)
AggregateDayOverwrite(aggregated, day_data) ==
    IF day_data = <<>> THEN aggregated
    ELSE AggregateDayOverwrite(
            DictPut(aggregated, Head(day_data)[1], Head(day_data)[2]),
            Tail(day_data))

\* inner loop: for key, value in day_data.items(): aggregated[key] += value
RECURSIVE AggregateDay(_, _)
AggregateDay(aggregated, day_data) ==
    IF day_data = <<>> THEN aggregated
    ELSE AggregateDay(
            DictPut(aggregated, Head(day_data)[1],
                    DictGet(aggregated, Head(day_data)[1], 0) + Head(day_data)[2]),
            Tail(day_data))

\* outer loop: for day_data in grouped_data_by_date.values()
RECURSIVE AggregateLoop(_, _)
AggregateLoop(aggregated, grouped) ==
    IF grouped = <<>> THEN aggregated
    ELSE AggregateLoop(AggregateDay(aggregated, Head(grouped)[2]), Tail(grouped))

aggregate_grouped_values(grouped_data_by_date) ==
    AggregateLoop(<<>>, grouped_data_by_date)

\* ---------------------------------------------------------------------
\* prepare_multiline_grouped_data
\* ---------------------------------------------------------------------
\* keys = set(); for values in ...values(): keys.update(values.keys())
UnionKeys(grouped) == UNION {DictKeys(grouped[i][2]) : i \in DOMAIN grouped}

\* normalized_key = "None" if k == "null" else k
NormalizedKey(k) == IF k = "null" THEN "None" ELSE k

\* for k, v in values.items(): normalized_values[normalized_key] = v
RECURSIVE NormalizeDay(_, _)
NormalizeDay(normalized_values, values) ==
    IF values = <<>> THEN normalized_values
    ELSE NormalizeDay(
            DictPut(normalized_values, NormalizedKey(Head(values)[1]), Head(values)[2]),
            Tail(values))

\* normalized_grouped_data[date] = normalized_values, for every date
NormalizeGrouped(grouped) ==
    [i \in DOMAIN grouped |-> <<grouped[i][1], NormalizeDay(<<>>, grouped[i][2])>>]

\* if "null" in keys: keys.remove("null"); keys.add("None")
RenameNullKey(keys) ==
    IF "null" \in keys THEN (keys \ {"null"}) \cup {"None"} ELSE keys

\* y_series[k] gets day_data.get(k, 0) for every date of x_values, in order
SeriesOf(normalized, x_values, k) ==
    [i \in DOMAIN x_values |-> DictGet(DictGet(normalized, x_values[i], <<>>), k, 0)]

prepare_multiline_grouped_data(grouped_data_by_date) ==
    LET keys == RenameNullKey(UnionKeys(grouped_data_by_date))
        normalized == NormalizeGrouped(grouped_data_by_date)
        x_values == sorted(DictKeyList(normalized))
    IN  [x_values |-> x_values,
         y_series |-> [k \in keys |-> SeriesOf(normalized, x_values, k)]]

\* ---------------------------------------------------------------------
\* Content blocks (reportlab flowables) appended to `elements`
\* ---------------------------------------------------------------------
\* a flowable without a `style` attribute carries NoStyle
NoStyle == "NoStyle"

Paragraph(text, style) ==
    [kind |-> "Paragraph", style |-> style, text |-> text, chart |-> "", args |-> <<>>]
Spacer ==
    [kind |-> "Spacer", style |-> NoStyle, text |-> "", chart |-> "", args |-> <<>>]
PageBreak ==
    [kind |-> "PageBreak", style |-> NoStyle, text |-> "", chart |-> "", args |-> <<>>]
NextPageTemplate(name) ==
    [kind |-> "NextPageTemplate", style |-> NoStyle, text |-> name, chart |-> "", args |-> <<>>]
TableOfContents ==
    [kind |-> "TableOfContents", style |-> NoStyle, text |-> "", chart |-> "", args |-> <<>>]
SectionCover(title) ==
    [kind |-> "SectionCover", style |-> NoStyle, text |-> title, chart |-> "", args |-> <<>>]
Table(rows) ==
    [kind |-> "Table", style |-> NoStyle, text |-> "", chart |-> "", args |-> rows]
\* ChartImage(chart_func, width, height, *chart_args): the chart is rendered
\* when the block is constructed; args are the chart function's data arguments
ChartImage(chart_func, title, args) ==
    [kind |-> "ChartImage", style |-> NoStyle, text |-> title, chart |-> chart_func, args |-> args]

\* ---------------------------------------------------------------------
\* Upstream responses
\* ---------------------------------------------------------------------
\* ways the POST to {ATHENA_URL}/report_data or {ORACLE_URL}/report_data fails
\* inside the try block: client.post raises (network error, timeout),
\* raise_for_status raises (non-2xx), json.loads raises (body is not JSON)
FetchFailures == {"network_error", "timeout", "http_error", "not_json"}

\* a JSON object without any key
EmptyJson == <<>>

\* dict.get(key, default) and `key in dict` on a parsed JSON object
JsonHas(obj, key) == key \in DOMAIN obj
JsonGet(obj, key, default) == IF JsonHas(obj, key) THEN obj[key] ELSE default

\* dimensions whose Device Analysis section reads the resolution mapping
DimensionsDeviceReadsResolutions ==
    << <<"resolution_reason", "Resolutions Analysis", "Resolution Analysis", "Resolution Trends Over Time">>,
       <<"resolution_reason", "Device Analysis", "Device Analysis", "Device Trends Over Time">>,
       <<"sensor_type", "Sensor Analysis", "Sensor Analysis", "Sensor Trends Over Time">>,
       <<"industry", "Industry Analysis", "Industry Analysis", "Industry Trends Over Time">>,
       <<"event_type", "Event Analysis", "Event Analysis", "Event Trends Over Time">> >>

\* the five category dimensions in the order generate_pdf charts them:
\* <<key of athena_data['grouped_data'], section heading, bar chart title,
\*   multi-line chart title>>
Dimensions ==
    << <<"resolution_reason", "Resolutions Analysis", "Resolution Analysis", "Resolution Trends Over Time">>,
       <<"device_type", "Device Analysis", "Device Analysis", "Device Trends Over Time">>,
       <<"sensor_type", "Sensor Analysis", "Sensor Analysis", "Sensor Trends Over Time">>,
       <<"industry", "Industry Analysis", "Industry Analysis", "Industry Trends Over Time">>,
       <<"event_type", "Event Analysis", "Event Analysis", "Event Trends Over Time">> >>

\* Athena bodies that follow the output contract: a time_series_overall block
\* and a grouped_data block with one DateKeyedCategoryMapping per dimension
AthenaPayloadBusy ==
    [time_series_overall |->
        [date_created |-> <<1, 2>>, alert_count |-> <<3, 5>>],
     grouped_data |->
        [resolution_reason |-> << <<2, << <<"false_alert", 1>>, <<"null", 2>> >> >>,
                                  <<1, << <<"false_alert", 3>> >> >> >>,
         device_type       |-> << <<1, << <<"g7c", 2>> >> >>,
                                  <<2, << <<"g7x", 1>>, <<"g7c", 1>> >> >> >>,
         sensor_type       |-> << <<1, << <<"gas", 4>> >> >> >>,
         industry          |-> << <<2, << <<"oil_gas", 2>>, <<"utilities", 2>> >> >> >>,
         event_type        |-> << <<1, << <<"null", 1>>, <<"None", 2>> >> >>,
                                  <<2, << <<"fall", 5>> >> >> >>]]

AthenaPayloadQuiet ==
    [time_series_overall |->
        [date_created |-> <<>>, alert_count |-> <<>>],
     grouped_data |->
        [resolution_reason |-> <<>>,
         device_type       |-> <<>>,
         sensor_type       |-> <<>>,
         industry          |-> <<>>,
         event_type        |-> << <<1, << <<"fall", 1>> >> >> >>]]

\* what json.loads(response.text) can give for a 2xx Athena response with a
\* JSON body: a payload of the contract, or an object without grouped_data
AthenaBodies == {AthenaPayloadBusy, AthenaPayloadQuiet, EmptyJson}

\* counts a ForecastSummary may carry
ForecastCounts == 0..MaxForecast

ForecastSummaries ==
    [actual_last_4w : ForecastCounts,
     predicted_last_4w : ForecastCounts,
     predicted_next_4w : ForecastCounts]

\* what json.loads(response.text) can give for a 2xx Oracle response with a
\* JSON body: {}, a ForecastSummary, or an object that is neither
OracleBodies == {EmptyJson, [detail |-> "insufficient data"]} \cup ForecastSummaries

\* ---------------------------------------------------------------------
\* Inputs of the aggregation engine: DateKeyedCategoryMappings
\* ---------------------------------------------------------------------
\* category labels: one ordinary label and the two labels the renaming
\* rule of prepare_multiline_grouped_data is about
Labels == {"gas", "null", "None"}
Dates == 1..MaxDates
Counts == 1..MaxCount

DistinctKeys(d) == \A i, j \in DOMAIN d : d[i][1] = d[j][1] => i = j

\* per-date dicts; the ordinary label, when present, is listed first,
\* "null" and "None" come in either order
DayDicts ==
    {d \in UNION {[1..n -> Labels \X Counts] : n \in 0..Cardinality(Labels)} :
        /\ DistinctKeys(d)
        /\ \A i \in DOMAIN d : d[i][1] = "gas" => i = 1}

\* the dates of a mapping arrive in ascending or in descending order
Ascending(d) == \A i, j \in DOMAIN d : i < j => d[i][1] < d[j][1]
Descending(d) == \A i, j \in DOMAIN d : i < j => d[i][1] > d[j][1]

DateKeyedCategoryMappings ==
    UNION {
        {d \in [1..n -> Dates \X DayDicts] : Ascending(d) \/ Descending(d)}
        : n \in 0..MaxDates}

\* ---------------------------------------------------------------------
\* State
\* ---------------------------------------------------------------------
VARIABLES
    \* --- the aggregation functions applied to one mapping
    grouped_data_by_date,  \* argument of the two aggregation functions
    aggregated,            \* result of aggregate_grouped_values
    multiline,             \* result of prepare_multiline_grouped_data
    agg_pc,                \* "input", "aggregated", "prepared"
    \* --- one run of generatepdf.generate_pdf
    pc,                    \* position in generate_pdf
    elements,              \* the list of content blocks built so far
    athena_response,       \* how the Athena service answered
    oracle_response,       \* how the Oracle service answered
    athena_data,           \* local of generate_pdf
    oracle_data,           \* local of generate_pdf
    oracle_blank,          \* local of generate_pdf
    athena_calls,          \* POSTs issued to Athena
    oracle_calls,          \* POSTs issued to Oracle
    dim,                   \* index of the category section being emitted
    built,                 \* flowables doc.build has handled
    toc_notifications,     \* TOCEntry notifications issued by after_flowable
    exception,             \* exception propagated out of generate_pdf
    result,                \* bytes returned by generate_pdf
    \* --- main.py: the store and the handler of POST /report
    pdf_files,             \* rows of report.pdf_files
    reports,               \* rows of report.report
    handler_pc,            \* "idle", or "pdf_stored" inside create_report
    report_data,           \* body of the POST /report being handled
    new_pdf,               \* local of create_report
    reply,                 \* what the last finished handler answered
    pdf_files_before,      \* rows of pdf_files when the last create or delete request began
    reports_before,        \* rows of report when the last create or delete request began
    requests,              \* POST /report calls begun
    \* --- the request formatting functions applied to one ReportRequest
    fmt_request,           \* argument of formatAthenaData and formatOracleData
    athena_body,           \* result of formatAthenaData
    oracle_body,           \* result of formatOracleData
    fmt_pc                 \* "input", "athena_formatted", "oracle_formatted"

aggVars == <<grouped_data_by_date, aggregated, multiline, agg_pc>>

pdfVars == <<pc, elements, athena_response, oracle_response, athena_data, oracle_data,
             oracle_blank, athena_calls, oracle_calls, dim, built, toc_notifications,
             exception, result>>

storeVars == <<pdf_files, reports, handler_pc, report_data, new_pdf, reply,
               pdf_files_before, reports_before, requests>>

fmtVars == <<fmt_request, athena_body, oracle_body, fmt_pc>>

vars == <<aggVars, pdfVars, storeVars, fmtVars>>

\* a local that is not bound yet, a call that has not returned yet
Unbound == [unbound |-> TRUE]
NoException == "none"

NoMultiline == [x_values |-> <<>>, y_series |-> <<>>]

\* ---------------------------------------------------------------------
\* The aggregation functions applied to every mapping
\* ---------------------------------------------------------------------
AggIdle ==
    /\ grouped_data_by_date = <<>>
    /\ aggregated = <<>>
    /\ multiline = NoMultiline
    /\ agg_pc = "idle"

\* no run of generate_pdf
PdfIdle ==
    /\ pc = "idle"
    /\ elements = <<>>
    /\ athena_response = Unbound
    /\ oracle_response = Unbound
    /\ athena_data = Unbound
    /\ oracle_data = Unbound
    /\ oracle_blank = FALSE
    /\ athena_calls = 0
    /\ oracle_calls = 0
    /\ dim = 0
    /\ built = 0
    /\ toc_notifications = <<>>
    /\ exception = NoException
    /\ result = Unbound

\* no request being formatted
FmtIdle ==
    /\ fmt_request = Unbound
    /\ athena_body = Unbound
    /\ oracle_body = Unbound
    /\ fmt_pc = "idle"

\* an empty store and no request
StoreIdle ==
    /\ pdf_files = {}
    /\ reports = {}
    /\ handler_pc = "idle"
    /\ report_data = Unbound
    /\ new_pdf = Unbound
    /\ reply = Unbound
    /\ pdf_files_before = {}
    /\ reports_before = {}
    /\ requests = 0

AggInit ==
    /\ grouped_data_by_date \in DateKeyedCategoryMappings
    /\ aggregated = <<>>
    /\ multiline = NoMultiline
    /\ agg_pc = "input"
    /\ PdfIdle
    /\ StoreIdle
    /\ FmtIdle

\* resolutions_grouped = aggregate_grouped_values(resolutions)
Aggregate ==
    /\ agg_pc = "input"
    /\ aggregated' = aggregate_grouped_values(grouped_data_by_date)
    /\ agg_pc' = "aggregated"
    /\ UNCHANGED <<grouped_data_by_date, multiline, pdfVars, storeVars, fmtVars>>

\* x_vals, y_series = prepare_multiline_grouped_data(resolutions)
Prepare ==
    /\ agg_pc = "aggregated"
    /\ multiline' = prepare_multiline_grouped_data(grouped_data_by_date)
    /\ agg_pc' = "prepared"
    /\ UNCHANGED <<grouped_data_by_date, aggregated, pdfVars, storeVars, fmtVars>>

AggNext == Aggregate \/ Prepare

SpecAgg == AggInit /\ [][AggNext]_vars

\* ---------------------------------------------------------------------
\* generatepdf.py: the upstream data fetcher
\* ---------------------------------------------------------------------
\* an upstream answers a POST with a failure or with a 2xx JSON body
AthenaResponses ==
    {[failure |-> f, body |-> EmptyJson] : f \in FetchFailures}
        \cup {[failure |-> "none", body |-> b] : b \in AthenaBodies}

OracleResponses ==
    {[failure |-> f, body |-> EmptyJson] : f \in FetchFailures}
        \cup {[failure |-> "none", body |-> b] : b \in OracleBodies}

\* getAthenaData with the handler of getOracleData: the failure is swallowed
getAthenaDataSwallows(response) ==
    IF response.failure # "none"
    THEN [raised |-> FALSE, exc |-> NoException, value |-> EmptyJson]
    ELSE [raised |-> FALSE, exc |-> NoException, value |-> response.body]

\* getAthenaData: `except Exception as e: ... raise e`
getAthenaData(response) ==
    IF response.failure # "none"
    THEN [raised |-> TRUE, exc |-> response.failure, value |-> Unbound]
    ELSE [raised |-> FALSE, exc |-> NoException, value |-> response.body]

\* getOracleData with the handler of getAthenaData: the failure is re-raised
getOracleDataRaises(response) ==
    IF response.failure # "none"
    THEN [raised |-> TRUE, exc |-> response.failure, value |-> Unbound]
    ELSE [raised |-> FALSE, exc |-> NoException, value |-> response.body]

\* getOracleData: `except Exception as e: ... response_dict = {}`
getOracleData(response) ==
    IF response.failure # "none"
    THEN [raised |-> FALSE, exc |-> NoException, value |-> EmptyJson]
    ELSE [raised |-> FALSE, exc |-> NoException, value |-> response.body]

\* ---------------------------------------------------------------------
\* generatepdf.py: the content blocks of each section of generate_pdf
\* ---------------------------------------------------------------------
\* front matter with the Introduction emitted ahead of the table of contents
FrontMatterBlocksIntroFirst ==
    << NextPageTemplate("Body"),
       PageBreak,
       Paragraph("Introduction", "Heading1"),
       Spacer,
       Paragraph("This report provides an in-depth analysis of alert data ...", "Normal"),
       Spacer,
       PageBreak,
       Paragraph("Table of Contents", "Heading1"),
       TableOfContents,
       PageBreak,
       SectionCover("Analytics Section"),
       PageBreak >>

\* cover switch, table of contents, section cover, Introduction
FrontMatterBlocks ==
    << NextPageTemplate("Body"),
       PageBreak,
       Paragraph("Table of Contents", "Heading1"),
       TableOfContents,
       PageBreak,
       SectionCover("Analytics Section"),
       PageBreak,
       Paragraph("Introduction", "Heading1"),
       Spacer,
       Paragraph("This report provides an in-depth analysis of alert data ...", "Normal"),
       Spacer >>

\* Alert Count Over Time: one multi-line chart with the single series "Alert Count"
AlertCountBlocks(dates, alert_counts) ==
    << Paragraph("Alert Count Over Time", "Heading2"),
       Spacer,
       Paragraph("The line graph below highlights fluctuations in alert volume ...", "Normal"),
       ChartImage("create_multi_line_chart", "Alert Count Over Time",
                  <<dates, [k \in {"Alert Count"} |-> alert_counts]>>),
       Spacer,
       PageBreak >>

\* heading and caption of a category section, emitted before the mapping is read
CategoryHeadBlocks(d) ==
    << Paragraph(d[2], "Heading1"),
       Spacer,
       Paragraph("This section breaks down the alerts of this dimension ...", "Normal") >>

\* a category section that lost its bar chart
CategoryChartBlocksNoBar(d, mapping) ==
    LET series == prepare_multiline_grouped_data(mapping)
    IN  << Spacer,
           ChartImage("create_multi_line_chart", d[4], <<series.x_values, series.y_series>>),
           Spacer,
           PageBreak >>

\* bar chart of the aggregate and multi-line chart of the time series of one mapping
CategoryChartBlocks(d, mapping) ==
    LET grouped == aggregate_grouped_values(mapping)
        series == prepare_multiline_grouped_data(mapping)
    IN  << ChartImage("create_bar_chart", d[3], <<DictValues(grouped), DictKeyList(grouped)>>),
           Spacer,
           ChartImage("create_multi_line_chart", d[4], <<series.x_values, series.y_series>>),
           Spacer,
           PageBreak >>

ConclusionBlocks ==
    << Paragraph("Conclusion", "Heading1"),
       Spacer,
       Paragraph("In summary, the analysis above reveals key trends ...", "Normal"),
       Spacer >>

\* str() of a non-negative int: its decimal digits
Digits == <<"0", "1", "2", "3", "4", "5", "6", "7", "8", "9">>

RECURSIVE str(_)
str(n) == IF n < 10 THEN <<Digits[n + 1]>> ELSE str(n \div 10) \o <<Digits[(n % 10) + 1]>>

\* a trend that calls equal counts an increase
TrendAtLeast(predicted_next_4w, actual_last_4w) ==
    IF predicted_next_4w >= actual_last_4w THEN "increase" ELSE "decrease"

\* trend = "increase" if oracle_data['predicted_next_4w'] > actual_last_4w else "decrease"
Trend(predicted_next_4w, actual_last_4w) ==
    IF predicted_next_4w > actual_last_4w THEN "increase" ELSE "decrease"

TrendSentence(trend) ==
    IF trend = "increase"
    THEN "Based on the AI model, an increase in alert counts is forecasted ..."
    ELSE "Based on the AI model, an decrease in alert counts is forecasted ..."

\* the keys the forecast branch reads from oracle_data
ForecastKeys == {"actual_last_4w", "predicted_last_4w", "predicted_next_4w"}

\* the AI-insights branch, taken when oracle_data is not blank: the blocks
\* emitted before oracle_data is read
ForecastHeadBlocks ==
    << PageBreak,
       SectionCover("AI Insights"),
       PageBreak,
       Paragraph("Past Month & Next Month Analysis", "Heading1"),
       Spacer,
       Paragraph("This section compares actual alert data from the past month ...", "Normal"),
       Spacer,
       Paragraph("Past Month Alert Comparison", "Heading2"),
       Spacer,
       Paragraph("The bar chart below contrasts the actual alert counts ...", "Normal") >>

\* the AI-insights branch: comparison chart, trend sentence, forecast table
ForecastDataBlocks(forecast) ==
    << ChartImage("create_bar_chart", "Past Month Alert Comparison",
                  << <<forecast.actual_last_4w, forecast.predicted_last_4w>>,
                     <<"Actual Last 4 Weeks", "Predicted Last 4 Weeks">> >>),
       Spacer,
       Paragraph("Next Month Forecast", "Heading2"),
       Spacer,
       Paragraph(TrendSentence(Trend(forecast.predicted_next_4w, forecast.actual_last_4w)),
                 "Normal"),
       Spacer,
       Table(<< <<"Expected Alerts">>, <<str(forecast.predicted_next_4w)>> >>),
       Spacer,
       PageBreak >>

\* a notice that does not start on a new page
NoticeBlocksSamePage ==
    << Paragraph("Predictive Analytics", "Heading1"),
       Paragraph("There is not enough historical data to generate reliable predictions ...",
                 "Normal"),
       Spacer,
       PageBreak >>

\* the branch taken when oracle_data is blank
NoticeBlocks ==
    << PageBreak,
       Paragraph("Predictive Analytics", "Heading1"),
       Paragraph("There is not enough historical data to generate reliable predictions ...",
                 "Normal"),
       Spacer,
       PageBreak >>

\* after_flowable that notifies top-level headings only
after_flowableHeading1Only(notifications, flowable) ==
    IF flowable.style # NoStyle /\ flowable.style = "Heading1"
    THEN Append(notifications, <<0, flowable.text>>)
    ELSE notifications

\* after_flowable: a flowable with a style named Heading1 or Heading2 is
\* notified to the table of contents as (level, text); doc.page is left to
\* the layout engine
after_flowable(notifications, flowable) ==
    IF flowable.style # NoStyle /\ flowable.style \in {"Heading1", "Heading2"}
    THEN Append(notifications,
                <<IF flowable.style = "Heading1" THEN 0 ELSE 1, flowable.text>>)
    ELSE notifications

\* ---------------------------------------------------------------------
\* generatepdf.py: generate_pdf, one action per stretch of the function
\* ---------------------------------------------------------------------
Init ==
    /\ AggIdle
    /\ StoreIdle
    /\ FmtIdle
    /\ pc = "front"
    /\ elements = <<>>
    /\ athena_response = Unbound
    /\ oracle_response = Unbound
    /\ athena_data = Unbound
    /\ oracle_data = Unbound
    /\ oracle_blank = FALSE
    /\ athena_calls = 0
    /\ oracle_calls = 0
    /\ dim = 0
    /\ built = 0
    /\ toc_notifications = <<>>
    /\ exception = NoException
    /\ result = Unbound

\* an exception leaves generate_pdf: nothing is built, nothing is returned
Raise(exc) ==
    /\ pc' = "raised"
    /\ exception' = exc

\* elements = [] ... Introduction
EmitFrontMatter ==
    /\ pc = "front"
    /\ elements' = elements \o FrontMatterBlocks
    /\ pc' = "athena"
    /\ UNCHANGED <<aggVars, storeVars, fmtVars, athena_response, oracle_response, athena_data, oracle_data,
                   oracle_blank, athena_calls, oracle_calls, dim, built,
                   toc_notifications, exception, result>>

\* athena_data = getAthenaData(report_data)
FetchAthena ==
    /\ pc = "athena"
    /\ \E response \in AthenaResponses :
          LET call == getAthenaData(response)
          IN  /\ athena_response' = response
              /\ athena_calls' = athena_calls + 1
              /\ IF call.raised
                 THEN Raise(call.exc) /\ UNCHANGED athena_data
                 ELSE /\ athena_data' = call.value
                      /\ pc' = "oracle"
                      /\ UNCHANGED exception
    /\ UNCHANGED <<aggVars, storeVars, fmtVars, elements, oracle_response, oracle_data, oracle_blank,
                   oracle_calls, dim, built, toc_notifications, result>>

\* an Oracle call that does not wait for the Athena call to return
FetchOracleEarly ==
    /\ pc \in {"athena", "oracle"}
    /\ oracle_calls = 0
    /\ \E response \in OracleResponses :
          LET call == getOracleData(response)
          IN  /\ oracle_response' = response
              /\ oracle_calls' = oracle_calls + 1
              /\ oracle_data' = call.value
              /\ oracle_blank' = (call.value = EmptyJson)
              /\ pc' = IF pc = "athena" THEN "athena" ELSE "alert_count"
    /\ UNCHANGED <<aggVars, storeVars, fmtVars, elements, athena_response, athena_data, athena_calls,
                   dim, built, toc_notifications, exception, result>>

\* oracle_data = getOracleData(report_data); oracle_blank = not bool(oracle_data)
FetchOracle ==
    /\ pc = "oracle"
    /\ \E response \in OracleResponses :
          LET call == getOracleData(response)
          IN  /\ oracle_response' = response
              /\ oracle_calls' = oracle_calls + 1
              /\ IF call.raised
                 THEN Raise(call.exc) /\ UNCHANGED <<oracle_data, oracle_blank>>
                 ELSE /\ oracle_data' = call.value
                      /\ oracle_blank' = (call.value = EmptyJson)
                      /\ pc' = "alert_count"
                      /\ UNCHANGED exception
    /\ UNCHANGED <<aggVars, storeVars, fmtVars, elements, athena_response, athena_data, athena_calls,
                   dim, built, toc_notifications, result>>

\* dates, alert_counts = athena_data.get("time_series_overall", {}).get(...);
\* the Alert Count Over Time section
AlertCountSection ==
    /\ pc = "alert_count"
    /\ LET overall == JsonGet(athena_data, "time_series_overall", EmptyJson)
           dates == JsonGet(overall, "date_created", <<>>)
           alert_counts == JsonGet(overall, "alert_count", <<>>)
       IN  elements' = elements \o AlertCountBlocks(dates, alert_counts)
    /\ pc' = "category"
    /\ dim' = 1
    /\ UNCHANGED <<aggVars, storeVars, fmtVars, athena_response, oracle_response, athena_data, oracle_data,
                   oracle_blank, athena_calls, oracle_calls, built, toc_notifications,
                   exception, result>>

\* one of the five category sections; athena_data['grouped_data'][key] raises
\* KeyError when the body carries no such key
CategorySection ==
    /\ pc = "category"
    /\ LET d == Dimensions[dim]
       IN  IF JsonHas(athena_data, "grouped_data") /\ JsonHas(athena_data.grouped_data, d[1])
           THEN /\ elements' = elements \o CategoryHeadBlocks(d)
                                  \o CategoryChartBlocks(d, athena_data.grouped_data[d[1]])
                /\ IF dim < Len(Dimensions)
                   THEN dim' = dim + 1 /\ pc' = "category"
                   ELSE dim' = dim /\ pc' = "conclusion"
                /\ UNCHANGED exception
           ELSE /\ elements' = elements \o CategoryHeadBlocks(d)
                /\ Raise("KeyError")
                /\ UNCHANGED dim
    /\ UNCHANGED <<aggVars, storeVars, fmtVars, athena_response, oracle_response, athena_data, oracle_data,
                   oracle_blank, athena_calls, oracle_calls, built, toc_notifications,
                   result>>

ConclusionSection ==
    /\ pc = "conclusion"
    /\ elements' = elements \o ConclusionBlocks
    /\ pc' = "fork"
    /\ UNCHANGED <<aggVars, storeVars, fmtVars, athena_response, oracle_response, athena_data, oracle_data,
                   oracle_blank, athena_calls, oracle_calls, dim, built,
                   toc_notifications, exception, result>>

\* if not oracle_blank: the AI-insights section; oracle_data[key] raises
\* KeyError when a forecast key is missing
ForecastSection ==
    /\ pc = "fork"
    /\ ~oracle_blank
    /\ IF ForecastKeys \subseteq DOMAIN oracle_data
       THEN /\ elements' = elements \o ForecastHeadBlocks \o ForecastDataBlocks(oracle_data)
            /\ pc' = "build"
            /\ UNCHANGED exception
       ELSE /\ elements' = elements \o ForecastHeadBlocks
            /\ Raise("KeyError")
    /\ UNCHANGED <<aggVars, storeVars, fmtVars, athena_response, oracle_response, athena_data, oracle_data,
                   oracle_blank, athena_calls, oracle_calls, dim, built,
                   toc_notifications, result>>

\* else: the "not enough historical data" notice
NoticeSection ==
    /\ pc = "fork"
    /\ oracle_blank
    /\ elements' = elements \o NoticeBlocks
    /\ pc' = "build"
    /\ UNCHANGED <<aggVars, storeVars, fmtVars, athena_response, oracle_response, athena_data, oracle_data,
                   oracle_blank, athena_calls, oracle_calls, dim, built,
                   toc_notifications, exception, result>>

\* doc.build(elements): the next flowable is handled, then after_flowable runs
BuildFlowable ==
    /\ pc = "build"
    /\ built < Len(elements)
    /\ toc_notifications' = after_flowable(toc_notifications, elements[built + 1])
    /\ built' = built + 1
    /\ UNCHANGED <<aggVars, storeVars, fmtVars, pc, elements, athena_response, oracle_response, athena_data,
                   oracle_data, oracle_blank, athena_calls, oracle_calls, dim,
                   exception, result>>

\* doc.build returns; buffer.seek(0); return buffer.read()
ReturnBytes ==
    /\ pc = "build"
    /\ built = Len(elements)
    /\ result' = [pdf |-> elements]
    /\ pc' = "done"
    /\ UNCHANGED <<aggVars, storeVars, fmtVars, elements, athena_response, oracle_response, athena_data,
                   oracle_data, oracle_blank, athena_calls, oracle_calls, dim, built,
                   toc_notifications, exception>>

Next ==
    \/ EmitFrontMatter
    \/ FetchAthena
    \/ FetchOracle
    \/ AlertCountSection
    \/ CategorySection
    \/ ConclusionSection
    \/ ForecastSection
    \/ NoticeSection
    \/ BuildFlowable
    \/ ReturnBytes

Spec == Init /\ [][Next]_vars

\* generate_pdf is straight-line synchronous code: a run that can take a
\* step takes it
FairSpec == Spec /\ WF_vars(Next)

\* ---------------------------------------------------------------------
\* main.py: the HTTP handlers and the store
\* ---------------------------------------------------------------------
Usernames == {"ana", "raj"}
Titles == {"Weekly alerts", "Monthly alerts"}

\* schemas.ReportCreate: valid bodies of POST /report
ReportCreates ==
    [username : Usernames,
     title : Titles,
     date_start : {1},
     date_end : {2},
     industry : {<<"Oil & Gas">>, <<"Utilities", "Oil & Gas">>},
     continents : {<<"Europe">>},
     alerts : {<<"gas">>},
     devices : {<<"G7c">>},
     resolutions : {<<"False Alert">>},
     events : {<<"Fall">>}]

\* models.Report: the mapped columns a Report(...) constructor accepts
ReportColumns ==
    {"id", "username", "title", "date_start", "date_end", "industry", "continents",
     "devices", "resolutions", "alerts", "pdf_id", "pdf"}

\* the attributes of report_data that create_report reads to build the Report,
\* in evaluation order, and the keyword each is passed as
ReportKwargs == <<"title", "created_at", "industry", "location", "alerts", "username">>

\* main.generate_pdf(title, content): a one-page PDF with the two strings
generate_pdf(title, content) == [title_line |-> title, content_line |-> content]

\* autoincrement primary key
NextId(rows) ==
    IF rows = {} THEN 1
    ELSE (CHOOSE n \in {r.id : r \in rows} : \A r \in rows : r.id <= n) + 1

\* schemas.ReportResponse built from a Report row
ReportResponse(report) ==
    [id |-> report.id, title |-> report.title, date_start |-> report.date_start,
     date_end |-> report.date_end, industry |-> report.industry, pdf_id |-> report.pdf_id]

StoreInit ==
    /\ AggIdle
    /\ PdfIdle
    /\ StoreIdle
    /\ FmtIdle

\* create_report, first half: pdf_data = generate_pdf(...); new_pdf is added,
\* committed and refreshed
CreateReportStorePdf ==
    /\ handler_pc = "idle"
    /\ requests < MaxRequests
    /\ \E body \in ReportCreates :
          /\ report_data' = body
          /\ new_pdf' = [id |-> NextId(pdf_files),
                         pdf_data |-> generate_pdf(body.title, body.industry)]
    /\ pdf_files' = pdf_files \cup {new_pdf'}
    /\ pdf_files_before' = pdf_files
    /\ reports_before' = reports
    /\ requests' = requests + 1
    /\ handler_pc' = "pdf_stored"
    /\ UNCHANGED <<aggVars, pdfVars, fmtVars, reports, reply>>

\* create_report, second half: Report(title=report_data.title,
\* created_at=report_data.created_at, ...) is built, added, committed and
\* returned; reading an attribute ReportCreate does not have raises
\* AttributeError, a keyword that is no column of Report raises TypeError,
\* and the unhandled exception is answered with status 500
CreateReportStoreReport ==
    /\ handler_pc = "pdf_stored"
    /\ IF \E i \in DOMAIN ReportKwargs : ReportKwargs[i] \notin DOMAIN report_data
       THEN /\ reply' = [op |-> "create_report", status |-> 500, body |-> "AttributeError"]
            /\ UNCHANGED reports
       ELSE IF \E i \in DOMAIN ReportKwargs : ReportKwargs[i] \notin ReportColumns
       THEN /\ reply' = [op |-> "create_report", status |-> 500, body |-> "TypeError"]
            /\ UNCHANGED reports
       ELSE LET new_report ==
                    [id |-> NextId(reports),
                     username |-> report_data.username,
                     title |-> report_data.title,
                     date_start |-> report_data.date_start,
                     date_end |-> report_data.date_end,
                     industry |-> report_data.industry,
                     alerts |-> report_data.alerts,
                     pdf_id |-> new_pdf.id]
            IN  /\ reports' = reports \cup {new_report}
                /\ reply' = [op |-> "create_report", status |-> 200,
                             body |-> ReportResponse(new_report)]
    /\ handler_pc' = "idle"
    /\ UNCHANGED <<aggVars, pdfVars, fmtVars, pdf_files, report_data, new_pdf,
                   pdf_files_before, reports_before, requests>>

\* GET /reports?username=...: the reports of one requester, [] when none
list_reports ==
    /\ handler_pc = "idle"
    /\ \E username \in Usernames :
          reply' = [op |-> "list_reports", status |-> 200,
                    body |-> {r \in reports : r.username = username}]
    /\ UNCHANGED <<aggVars, pdfVars, fmtVars, pdf_files, reports, handler_pc, report_data, new_pdf,
                   pdf_files_before, reports_before, requests>>

\* GET /pdf_report?pdf_id=...: the stored bytes, or 404 for an unknown id
get_pdf_report ==
    /\ handler_pc = "idle"
    /\ \E pdf_id \in 1..(MaxRequests + 1) :
          IF \E f \in pdf_files : f.id = pdf_id
          THEN reply' = [op |-> "get_pdf_report", status |-> 200,
                         body |-> (CHOOSE f \in pdf_files : f.id = pdf_id).pdf_data]
          ELSE reply' = [op |-> "get_pdf_report", status |-> 404, body |-> "PDF not found"]
    /\ UNCHANGED <<aggVars, pdfVars, fmtVars, pdf_files, reports, handler_pc, report_data, new_pdf,
                   pdf_files_before, reports_before, requests>>

\* the operations main.py registers on the application: method and path
Routes ==
    {<<"GET", "/">>, <<"POST", "/report">>, <<"GET", "/reports">>,
     <<"GET", "/pdf_report">>, <<"GET", "/items/{item_id}">>, <<"GET", "/alerts">>,
     <<"GET", "/predictions">>, <<"GET", "/combined">>}

\* the answer to a request no registered operation takes: 405 when the path
\* is registered under another method, 404 when the path is not registered
Unrouted(method, path) ==
    IF \E route \in Routes : route[2] = path
    THEN [status |-> 405, body |-> "Method Not Allowed"]
    ELSE [status |-> 404, body |-> "Not Found"]

\* DELETE /report?report_id=...: main.py registers no operation for it, so
\* no handler runs and the store is not touched (the store as it was before
\* the request is kept for comparison)
DeleteReportRequest ==
    /\ handler_pc = "idle"
    /\ <<"DELETE", "/report">> \notin Routes
    /\ \E report_id \in 1..(MaxRequests + 1) :
          reply' = [op |-> "delete_report", report_id |-> report_id,
                    status |-> Unrouted("DELETE", "/report").status,
                    body |-> Unrouted("DELETE", "/report").body]
    /\ pdf_files_before' = pdf_files
    /\ reports_before' = reports
    /\ UNCHANGED <<aggVars, pdfVars, fmtVars, pdf_files, reports, handler_pc, report_data, new_pdf,
                   requests>>

StoreNext ==
    \/ CreateReportStorePdf
    \/ CreateReportStoreReport
    \/ list_reports
    \/ get_pdf_report
    \/ DeleteReportRequest

SpecStore == StoreInit /\ [][StoreNext]_vars

\* ---------------------------------------------------------------------
\* generatepdf.py: the request formatting functions
\* ---------------------------------------------------------------------
\* strings are sequences of one-character strings
UpperCase == <<"A", "B", "C", "D", "E", "F", "G", "H", "I", "J", "K", "L", "M",
               "N", "O", "P", "Q", "R", "S", "T", "U", "V", "W", "X", "Y", "Z">>
LowerCase == <<"a", "b", "c", "d", "e", "f", "g", "h", "i", "j", "k", "l", "m",
               "n", "o", "p", "q", "r", "s", "t", "u", "v", "w", "x", "y", "z">>

\* str.lower(): upper-case letters are replaced, every other character is kept
lower(string) ==
    [i \in DOMAIN string |->
        IF \E n \in DOMAIN UpperCase : UpperCase[n] = string[i]
        THEN LowerCase[CHOOSE n \in DOMAIN UpperCase : UpperCase[n] = string[i]]
        ELSE string[i]]

\* str.replace(old, new) for a one-character old
replace(string, old, new) ==
    [i \in DOMAIN string |-> IF string[i] = old THEN new ELSE string[i]]

\* x.lower() without the replace of spaces
FormatFilterLowerOnly(filter) == [i \in DOMAIN filter |-> lower(filter[i])]

\* [x.lower().replace(" ", "_") for x in filter]
FormatFilter(filter) ==
    [i \in DOMAIN filter |-> replace(lower(filter[i]), " ", "_")]

\* continent.replace("", ""): replacing the empty string by the empty string
\* gives the string back
FormatContinents(continents) == [i \in DOMAIN continents |-> continents[i]]

\* str(datetime(d.year, d.month, d.day)): the date at midnight
MidnightString(d) == [year |-> d[1], month |-> d[2], day |-> d[3],
                      hour |-> 0, minute |-> 0, second |-> 0]

formatAthenaData(request) ==
    [date_start |-> MidnightString(request.date_start),
     date_end |-> MidnightString(request.date_end),
     industry |-> FormatFilter(request.industry),
     continents |-> FormatContinents(request.continents),
     alerts |-> request.alerts,
     devices |-> FormatFilter(request.devices),
     resolutions |-> FormatFilter(request.resolutions),
     events |-> FormatFilter(request.events)]

formatOracleData(request) ==
    [resolution_reason |-> FormatFilter(request.resolutions),
     device_type |-> FormatFilter(request.devices),
     sensor_type |-> request.alerts,
     event_type |-> FormatFilter(request.events),
     industry |-> FormatFilter(request.industry),
     continent |-> FormatContinents(request.continents),
     date_end |-> MidnightString(request.date_end)]

\* characters of the probed strings: an upper-case letter, a lower-case
\* letter and the space
ProbeChars == {"G", "s", " "}
ProbeStrings == UNION {[1..n -> ProbeChars] : n \in 0..MaxStrLen}
ProbeLists == UNION {[1..n -> ProbeStrings] : n \in 0..MaxListLen}

\* a request with filter lists of two strings and of one string
SampleRequest ==
    [username |-> <<"a", "n", "a">>,
     title |-> <<"Q", "1">>,
     date_start |-> <<2025, 3, 1>>,
     date_end |-> <<2025, 3, 31>>,
     industry |-> << <<"O", "i", "l", " ", "&", " ", "G", "a", "s">>,
                     <<"U", "t", "i", "l", "i", "t", "i", "e", "s">> >>,
     continents |-> << <<"N", "o", "r", "t", "h", " ", "A", "m", "e", "r", "i", "c", "a">> >>,
     alerts |-> << <<"G", "a", "s", " ", "H", "i", "g", "h">>, <<"f", "a", "l", "l">> >>,
     devices |-> << <<"G", "7", "c">>, <<"G", "7", " ", "E", "X", "O">> >>,
     resolutions |-> << <<"F", "a", "l", "s", "e", " ", "A", "l", "e", "r", "t">> >>,
     events |-> << <<"N", "o", " ", "M", "o", "t", "i", "o", "n">>, <<"S", "O", "S">> >>]

FilterFields == {"industry", "continents", "alerts", "devices", "resolutions", "events"}

\* the sample request with one of its lists replaced by a probed list
ReportRequests ==
    {[SampleRequest EXCEPT ![f] = l] : f \in FilterFields, l \in ProbeLists}

FmtInit ==
    /\ AggIdle
    /\ PdfIdle
    /\ StoreIdle
    /\ fmt_request \in ReportRequests
    /\ athena_body = Unbound
    /\ oracle_body = Unbound
    /\ fmt_pc = "input"

\* report_dict = formatAthenaData(report_data), in getAthenaData
FormatAthena ==
    /\ fmt_pc = "input"
    /\ athena_body' = formatAthenaData(fmt_request)
    /\ fmt_pc' = "athena_formatted"
    /\ UNCHANGED <<aggVars, pdfVars, storeVars, fmt_request, oracle_body>>

\* report_dict = formatOracleData(report_data), in getOracleData
FormatOracle ==
    /\ fmt_pc = "athena_formatted"
    /\ oracle_body' = formatOracleData(fmt_request)
    /\ fmt_pc' = "oracle_formatted"
    /\ UNCHANGED <<aggVars, pdfVars, storeVars, fmt_request, athena_body>>

FmtNext == FormatAthena \/ FormatOracle

SpecFmt == FmtInit /\ [][FmtNext]_vars

\* =====================================================================
\* Properties of the request formatting (checked under SpecFmt)
\* =====================================================================
\* the character a filter string carries at a place after formatting
FormattedChar(c) ==
    IF c = " " THEN "_"
    ELSE IF c \in {UpperCase[n] : n \in DOMAIN UpperCase}
         THEN LowerCase[CHOOSE n \in DOMAIN UpperCase : UpperCase[n] = c]
         ELSE c

\* out is in, element by element and character by character lower-cased
\* with every space replaced by an underscore
IsFormattedFilter(out, in) ==
    /\ Len(out) = Len(in)
    /\ \A i \in DOMAIN in :
          /\ Len(out[i]) = Len(in[i])
          /\ \A j \in DOMAIN in[i] : out[i][j] = FormattedChar(in[i][j])

\* C11: the Athena body and the Oracle body carry each of the industry,
\* device, resolution and event filter lists element by element lower-cased
\* with every space replaced by an underscore (same length and order), carry
\* the continents list and the alert-type list unchanged, and the Oracle body
\* has sensor_type equal to the alert-type list, a date_end, and no date_start.
C11_BodiesFormatFilters ==
    /\ (fmt_pc \in {"athena_formatted", "oracle_formatted"} =>
          /\ IsFormattedFilter(athena_body.industry, fmt_request.industry)
          /\ IsFormattedFilter(athena_body.devices, fmt_request.devices)
          /\ IsFormattedFilter(athena_body.resolutions, fmt_request.resolutions)
          /\ IsFormattedFilter(athena_body.events, fmt_request.events)
          /\ athena_body.continents = fmt_request.continents
          /\ athena_body.alerts = fmt_request.alerts)
    /\ (fmt_pc = "oracle_formatted" =>
          /\ IsFormattedFilter(oracle_body.industry, fmt_request.industry)
          /\ IsFormattedFilter(oracle_body.device_type, fmt_request.devices)
          /\ IsFormattedFilter(oracle_body.resolution_reason, fmt_request.resolutions)
          /\ IsFormattedFilter(oracle_body.event_type, fmt_request.events)
          /\ oracle_body.continent = fmt_request.continents
          /\ oracle_body.sensor_type = fmt_request.alerts
          /\ "date_end" \in DOMAIN oracle_body
          /\ oracle_body.date_end = MidnightString(fmt_request.date_end)
          /\ "date_start" \notin DOMAIN oracle_body)

\* both bodies built for a request whose device list holds a string with an
\* upper-case letter and a space
C11_Witness ==
    /\ fmt_pc = "oracle_formatted"
    /\ fmt_request.devices = << <<"G", " ">> >>
    /\ athena_body.devices = << <<"g", "_">> >>
    /\ oracle_body.device_type = << <<"g", "_">> >>
    /\ oracle_body.sensor_type = SampleRequest.alerts

\* =====================================================================
\* Properties of POST /report (checked under SpecStore)
\* =====================================================================
CreateReportAnswered ==
    /\ handler_pc = "idle"
    /\ reply # Unbound
    /\ reply.op = "create_report"

\* C3: a POST /report with a valid ReportCreate body runs to completion: it
\* stores exactly one new document record and exactly one new report record
\* whose pdf_id references that document, and returns that record's metadata.
C3_CreateReportStoresBoth ==
    CreateReportAnswered =>
        /\ reply.status = 200
        /\ Cardinality(pdf_files \ pdf_files_before) = 1
        /\ pdf_files_before \subseteq pdf_files
        /\ Cardinality(reports \ reports_before) = 1
        /\ reports_before \subseteq reports
        /\ \A r \in reports \ reports_before :
              /\ \A f \in pdf_files \ pdf_files_before : r.pdf_id = f.id
              /\ reply.body = ReportResponse(r)

\* C4: after a create_report call that fails, the stored documents and the
\* stored reports are the same as before the call.
C4_FailedCreateLeavesStoreUnchanged ==
    (CreateReportAnswered /\ reply.status # 200) =>
        /\ pdf_files = pdf_files_before
        /\ reports = reports_before

\* C12: the service offers a DELETE /report operation: a call with the id of
\* a stored report is taken by a handler (it is not answered as an unknown
\* operation), removes the report record with that id from the store, and
\* leaves every other report record unchanged.
C12_DeleteReportRemovesRecord ==
    (handler_pc = "idle" /\ reply # Unbound /\ reply.op = "delete_report") =>
        /\ reply.status = 200
        /\ reports = {r \in reports_before : r.id # reply.report_id}

\* =====================================================================
\* Properties of generate_pdf (checked under Spec and FairSpec)
\* =====================================================================
AthenaFailed == athena_response # Unbound /\ athena_response.failure # "none"

\* Athena answered 2xx with a body of its output contract
AthenaDelivered ==
    /\ athena_response # Unbound
    /\ athena_response.failure = "none"
    /\ JsonHas(athena_response.body, "grouped_data")

OracleFailed == oracle_response # Unbound /\ oracle_response.failure # "none"

IsHeading(b) == b.kind = "Paragraph" /\ b.style \in {"Heading1", "Heading2"}

HeadingPositions(t) == {i \in DOMAIN elements : IsHeading(elements[i]) /\ elements[i].text = t}
Emitted(t) == HeadingPositions(t) # {}
Pos(t) == CHOOSE i \in HeadingPositions(t) : TRUE

ForecastHeading == "Past Month & Next Month Analysis"
NoticeHeading == "Predictive Analytics"
CategoryHeadings == {Dimensions[i][2] : i \in DOMAIN Dimensions}

\* C1: if the Athena fetch fails (network error, timeout, non-2xx, body not
\* JSON), getAthenaData raises and generate_pdf aborts with that failure
\* propagated; the Athena request was issued exactly once; no bytes are
\* returned and doc.build is never reached.
C1_AthenaFailureIsFatal ==
    AthenaFailed =>
        /\ pc = "raised"
        /\ exception = athena_response.failure
        /\ athena_calls = 1
        /\ result = Unbound
        /\ built = 0
        /\ toc_notifications = <<>>

\* a run whose Athena response body was not JSON
C1_Witness ==
    /\ AthenaFailed
    /\ athena_response.failure = "not_json"
    /\ pc = "raised"
    /\ athena_calls = 1

\* C2: on any failure of the Oracle call getOracleData returns an empty
\* result instead of raising, and generate_pdf, given that Athena delivered
\* its payload, takes the forecast-absent branch and completes the build
\* with the "not enough historical data" notice section.
C2_OracleFailureDegrades ==
    /\ []((OracleFailed /\ AthenaDelivered) =>
            /\ oracle_data = EmptyJson
            /\ oracle_blank
            /\ pc # "raised"
            /\ exception = NoException
            /\ ~Emitted(ForecastHeading)
            /\ (pc \in {"build", "done"} => Emitted(NoticeHeading))
            /\ (pc = "done" => result = [pdf |-> elements]))
    /\ ((OracleFailed /\ AthenaDelivered) ~> (pc = "done" /\ Emitted(NoticeHeading)))

\* a completed build after an Oracle call that answered non-2xx
C2_Witness ==
    /\ OracleFailed
    /\ oracle_response.failure = "http_error"
    /\ AthenaDelivered
    /\ pc = "done"
    /\ Emitted(NoticeHeading)
    /\ result = [pdf |-> elements]

\* the section that starts at a heading runs to the block before the next
\* Heading1, or to the end of the document
SectionEnd(i) ==
    LET later == {j \in DOMAIN elements : j > i /\ elements[j].style = "Heading1"}
    IN  IF later = {} THEN Len(elements)
        ELSE (CHOOSE j \in later : \A l \in later : j <= l) - 1

ChartsOfSection(i) ==
    {j \in (i + 1)..SectionEnd(i) : elements[j].kind = "ChartImage"}

AllCharts == {j \in DOMAIN elements : elements[j].kind = "ChartImage"}

\* the heading of the branch the fork took
ForkPos == IF Emitted(ForecastHeading) THEN Pos(ForecastHeading) ELSE Pos(NoticeHeading)

CoverAndContentsFirst ==
    /\ elements[1] = NextPageTemplate("Body")
    /\ elements[2] = PageBreak
    /\ Pos("Table of Contents") = 3
    /\ elements[4] = TableOfContents

\* C5 as stated: cover, table of contents, Introduction, Alert Count Over
\* Time, then the forecast section or the notice, then the five category
\* sections, and Conclusion last.
C5_Original ==
    pc = "done" =>
        /\ CoverAndContentsFirst
        /\ Emitted(ForecastHeading) \/ Emitted(NoticeHeading)
        /\ Pos("Table of Contents") < Pos("Introduction")
        /\ Pos("Introduction") < Pos("Alert Count Over Time")
        /\ Pos("Alert Count Over Time") < ForkPos
        /\ \A h \in CategoryHeadings : ForkPos < Pos(h) /\ Pos(h) < Pos("Conclusion")
        /\ \A j \in DOMAIN elements : j > Pos("Conclusion") => ~IsHeading(elements[j])

\* C5 (amended): in every successfully built document the sections appear in
\* the order cover, table of contents, Introduction, Alert Count Over Time,
\* the five category sections, Conclusion, and last the forecast section (if
\* oracle_data is not empty) or the insufficient-data notice (if it is empty);
\* the forecast-or-notice section follows every category section and the
\* Conclusion, and no section follows it.
C5_SectionOrder ==
    pc = "done" =>
        /\ CoverAndContentsFirst
        /\ Emitted(ForecastHeading) = ~oracle_blank
        /\ Emitted(NoticeHeading) = oracle_blank
        /\ Pos("Table of Contents") < Pos("Introduction")
        /\ Pos("Introduction") < Pos("Alert Count Over Time")
        /\ \A h \in CategoryHeadings :
              Pos("Alert Count Over Time") < Pos(h) /\ Pos(h) < Pos("Conclusion")
        /\ Pos("Conclusion") < ForkPos
        /\ \A j \in DOMAIN elements : j > ForkPos => elements[j].style # "Heading1"

\* a built document of the forecast-present branch
C5_Witness ==
    /\ pc = "done"
    /\ ~oracle_blank
    /\ Emitted(ForecastHeading)
    /\ Pos("Conclusion") < Pos(ForecastHeading)
    /\ Pos("Event Analysis") < Pos("Conclusion")

\* C6: every successfully built document has exactly one of the forecast
\* section and the insufficient-data notice; exactly five category sections
\* with exactly two charts each, one bar and one multi-line; one Alert Count
\* Over Time line chart; and the comparison bar chart if and only if the
\* forecast section is present (11 charts without forecast, 12 with).
C6_FixedTemplate ==
    pc = "done" =>
        /\ Cardinality(HeadingPositions(ForecastHeading))
              + Cardinality(HeadingPositions(NoticeHeading)) = 1
        /\ Cardinality(CategoryHeadings) = 5
        /\ \A h \in CategoryHeadings :
              /\ Cardinality(HeadingPositions(h)) = 1
              /\ Cardinality(ChartsOfSection(Pos(h))) = 2
              /\ Cardinality({j \in ChartsOfSection(Pos(h)) :
                                 elements[j].chart = "create_bar_chart"}) = 1
              /\ Cardinality({j \in ChartsOfSection(Pos(h)) :
                                 elements[j].chart = "create_multi_line_chart"}) = 1
        /\ Cardinality(HeadingPositions("Alert Count Over Time")) = 1
        /\ Cardinality(ChartsOfSection(Pos("Alert Count Over Time"))) = 1
        /\ \A j \in ChartsOfSection(Pos("Alert Count Over Time")) :
              /\ elements[j].chart = "create_multi_line_chart"
              /\ DOMAIN elements[j].args[2] = {"Alert Count"}
        /\ Emitted(ForecastHeading) =
              (\E j \in AllCharts : elements[j].text = "Past Month Alert Comparison")
        /\ (Emitted(ForecastHeading) =>
              /\ Cardinality(ChartsOfSection(Pos(ForecastHeading))) = 1
              /\ \A j \in ChartsOfSection(Pos(ForecastHeading)) :
                    elements[j].chart = "create_bar_chart")
        /\ (Emitted(NoticeHeading) => ChartsOfSection(Pos(NoticeHeading)) = {})
        /\ Cardinality(AllCharts) = IF Emitted(ForecastHeading) THEN 12 ELSE 11

\* a built document of the forecast-absent branch, with its 11 charts
C6_Witness ==
    /\ pc = "done"
    /\ Emitted(NoticeHeading)
    /\ ~Emitted(ForecastHeading)
    /\ Cardinality(AllCharts) = 11

\* the TOC entries the headings among blocks 1..n call for
RECURSIVE HeadingEntries(_)
HeadingEntries(n) ==
    IF n = 0 THEN <<>>
    ELSE IF IsHeading(elements[n])
         THEN Append(HeadingEntries(n - 1),
                     <<IF elements[n].style = "Heading1" THEN 0 ELSE 1, elements[n].text>>)
         ELSE HeadingEntries(n - 1)

CommonEntries ==
    << <<0, "Table of Contents">>, <<0, "Introduction">>, <<1, "Alert Count Over Time">>,
       <<0, "Resolutions Analysis">>, <<0, "Device Analysis">>, <<0, "Sensor Analysis">>,
       <<0, "Industry Analysis">>, <<0, "Event Analysis">>, <<0, "Conclusion">> >>

ForecastEntries ==
    << <<0, "Past Month & Next Month Analysis">>, <<1, "Past Month Alert Comparison">>,
       <<1, "Next Month Forecast">> >>

NoticeEntries == << <<0, "Predictive Analytics">> >>

\* C7: during the build every emitted block with style Heading1 or Heading2
\* produces exactly one TOC entry (level 0 or 1, with the heading's text), in
\* emission order, and no other block produces one; the forecast-present and
\* forecast-absent documents differ in their entries exactly by the headings
\* of the branch taken.
C7_TocFromEmittedHeadings ==
    /\ toc_notifications = HeadingEntries(built)
    /\ (pc = "done" =>
          /\ built = Len(elements)
          /\ toc_notifications =
                CommonEntries \o (IF oracle_blank THEN NoticeEntries ELSE ForecastEntries))

\* a finished build of the forecast-present branch: its two Heading2
\* subsections were notified at level 1
C7_Witness ==
    /\ pc = "done"
    /\ ~oracle_blank
    /\ Len(toc_notifications) = 12
    /\ toc_notifications[11] = <<1, "Past Month Alert Comparison">>
    /\ toc_notifications[12] = <<1, "Next Month Forecast">>

OracleDelivered == oracle_response # Unbound /\ oracle_response.failure = "none"

\* C13: the Oracle result seen by generate_pdf is either empty or holds all
\* of actual_last_4w, predicted_last_4w and predicted_next_4w; the
\* forecast-present branch is taken only with a complete result and the
\* forecast-absent branch otherwise; and, Athena having delivered its
\* payload, no Oracle response makes the build fail.
C13_OracleResultEmptyOrComplete ==
    oracle_data # Unbound =>
        /\ (oracle_data = EmptyJson \/ ForecastKeys \subseteq DOMAIN oracle_data)
        /\ (Emitted(ForecastHeading) => ForecastKeys \subseteq DOMAIN oracle_data)
        /\ (pc \in {"build", "done"} /\ ~(ForecastKeys \subseteq DOMAIN oracle_data)
              => Emitted(NoticeHeading))
        /\ (AthenaDelivered => pc # "raised" /\ exception = NoException)

\* C14: the two upstream calls are issued sequentially: the Oracle call is
\* issued only after the Athena call has returned, and only if it returned
\* without failure; each call is issued at most once; and both calls have
\* completed before any chart that uses upstream data is placed in the
\* document or drawn by the build.
C14_UpstreamCallsSequential ==
    /\ [](/\ athena_calls <= 1
          /\ oracle_calls <= 1
          /\ (oracle_calls = 1 =>
                /\ athena_calls = 1
                /\ athena_response # Unbound
                /\ athena_response.failure = "none"
                /\ athena_data = athena_response.body)
          /\ (AllCharts # {} \/ built > 0 =>
                /\ athena_calls = 1 /\ athena_data # Unbound
                /\ oracle_calls = 1 /\ oracle_data # Unbound))
    /\ [][oracle_calls' # oracle_calls =>
            /\ pc = "oracle"
            /\ athena_calls = 1
            /\ athena_calls' = athena_calls
            /\ athena_data # Unbound
            /\ athena_data' = athena_data]_vars
    /\ [][athena_calls' # athena_calls => oracle_calls = 0 /\ oracle_calls' = 0]_vars

\* a built document with its twelve charts, after one Athena call and one
\* Oracle call that both delivered
C14_Witness ==
    /\ pc = "done"
    /\ athena_calls = 1
    /\ oracle_calls = 1
    /\ OracleDelivered
    /\ athena_data = AthenaPayloadBusy
    /\ Cardinality(AllCharts) = 12

\* the category sections in the order of the claim: heading of the section
\* and the dimension whose mapping it charts
CategoryOrder ==
    << <<"Resolutions Analysis", "resolution_reason">>,
       <<"Device Analysis", "device_type">>,
       <<"Sensor Analysis", "sensor_type">>,
       <<"Industry Analysis", "industry">>,
       <<"Event Analysis", "event_type">> >>

\* the section headed at position p charts mapping and nothing else: after
\* the heading a bar chart of the aggregate, then a multi-line chart of the
\* time series
ChartsOwnMapping(p, mapping) ==
    LET grouped == aggregate_grouped_values(mapping)
        series == prepare_multiline_grouped_data(mapping)
    IN  \E b, m \in ChartsOfSection(p) :
           /\ ChartsOfSection(p) = {b, m}
           /\ p < b /\ b < m
           /\ elements[b].chart = "create_bar_chart"
           /\ elements[b].args = <<DictValues(grouped), DictKeyList(grouped)>>
           /\ elements[m].chart = "create_multi_line_chart"
           /\ elements[m].args = <<series.x_values, series.y_series>>

\* C15: the five category sections are emitted in the order resolution,
\* device, sensor, industry, event, one directly after the other, and each is
\* a heading, then a bar chart whose values and labels are the aggregate of
\* that dimension's own mapping, then a multi-line chart of the time series
\* of that same mapping.
C15_CategorySectionsChartOwnMapping ==
    pc \in {"conclusion", "fork", "build", "done"} =>
        /\ Pos("Alert Count Over Time") < Pos(CategoryOrder[1][1])
        /\ \A i \in DOMAIN CategoryOrder :
              /\ Cardinality(HeadingPositions(CategoryOrder[i][1])) = 1
              /\ elements[Pos(CategoryOrder[i][1])].style = "Heading1"
              /\ (i < Len(CategoryOrder) =>
                    SectionEnd(Pos(CategoryOrder[i][1])) + 1 = Pos(CategoryOrder[i + 1][1]))
              /\ ChartsOwnMapping(Pos(CategoryOrder[i][1]),
                                  athena_data.grouped_data[CategoryOrder[i][2]])
        /\ (pc # "conclusion" =>
              SectionEnd(Pos(CategoryOrder[5][1])) + 1 = Pos("Conclusion"))

\* a built document whose Device Analysis section charts the two device
\* types of the payload and whose Resolutions Analysis section charts the
\* two resolution reasons
C15_Witness ==
    /\ pc = "done"
    /\ athena_data = AthenaPayloadBusy
    /\ elements[Pos("Device Analysis") + 3].args = << <<3, 1>>, <<"g7c", "g7x">> >>
    /\ elements[Pos("Resolutions Analysis") + 3].args[2] = <<"false_alert", "null">>
    /\ elements[Pos("Device Analysis") + 5].chart = "create_multi_line_chart"

\* the headings that open the sections the claim names
SectionHeadings ==
    {"Introduction", "Alert Count Over Time", "Conclusion", ForecastHeading, NoticeHeading}
        \cup CategoryHeadings

SectionStarts ==
    {i \in DOMAIN elements : IsHeading(elements[i]) /\ elements[i].text \in SectionHeadings}

\* the section a block belongs to: the last section heading at or before it
SectionOf(i) ==
    CHOOSE p \in SectionStarts : p <= i /\ \A q \in SectionStarts : q <= i => q <= p

BreakBetween(p, q) == \E j \in DOMAIN elements : p < j /\ j < q /\ elements[j] = PageBreak

\* p and q are the headings of two sections that follow one another
Consecutive(p, q) ==
    /\ p \in SectionStarts /\ q \in SectionStarts /\ p < q
    /\ ~\E r \in SectionStarts : p < r /\ r < q

\* two charts without a page break between them are charts of one section
ChartsShareSectionOnly ==
    \A b, m \in AllCharts :
        (b < m /\ ~BreakBetween(b, m)) => SectionOf(b) = SectionOf(m)

\* C16 as stated: every section (Introduction, Alert Count Over Time, each
\* category section, Conclusion, forecast or notice) is followed by an
\* explicit PageBreak before the next section's heading, and only the two
\* charts of one section come without a page break between them.
C16_Original ==
    pc = "done" =>
        /\ \A p, q \in SectionStarts : Consecutive(p, q) => BreakBetween(p, q)
        /\ \A p \in SectionStarts : BreakBetween(p, Len(elements) + 1)
        /\ ChartsShareSectionOnly

\* C16: every section other than the Introduction is followed by an explicit
\* PageBreak before the next section's heading (the last section by the
\* PageBreak that ends the document); the Introduction is followed by the
\* Alert Count Over Time heading with no page break between them; and only
\* the two charts of one section come without a page break between them.
C16_SectionsEndWithPageBreak ==
    pc = "done" =>
        /\ \A p, q \in SectionStarts :
              Consecutive(p, q) =>
                 (BreakBetween(p, q) = (elements[p].text # "Introduction"))
        /\ Consecutive(Pos("Introduction"), Pos("Alert Count Over Time"))
        /\ \A p \in SectionStarts : BreakBetween(p, Len(elements) + 1)
        /\ elements[Len(elements)] = PageBreak
        /\ ChartsShareSectionOnly

\* a built document of the forecast-absent branch: the Alert Count Over Time
\* heading comes right after the Introduction's last spacer, and a page break
\* stands between the Conclusion and the notice
C16_Witness ==
    /\ pc = "done"
    /\ Emitted(NoticeHeading)
    /\ Pos("Alert Count Over Time") = Pos("Introduction") + 4
    /\ elements[Pos("Alert Count Over Time") - 1] = Spacer
    /\ elements[Pos("Conclusion") + 4] = PageBreak
    /\ Pos(NoticeHeading) = Pos("Conclusion") + 5

\* the number a string of decimal digits writes
RECURSIVE DecimalValue(_)
DecimalValue(digits) ==
    IF digits = <<>> THEN 0
    ELSE 10 * DecimalValue(SubSeq(digits, 1, Len(digits) - 1))
           + (CHOOSE n \in 0..9 : Digits[n + 1] = digits[Len(digits)])

\* the forecast section has been emitted in full
ForecastEmitted == Emitted(ForecastHeading) /\ Emitted("Next Month Forecast")

ComparisonCharts ==
    {j \in AllCharts : elements[j].text = "Past Month Alert Comparison"}

\* C17: on the forecast-present path the trend sentence says "increase" if
\* and only if predicted_next_4w is strictly greater than actual_last_4w and
\* says "decrease" in every other case, equality included; the comparison
\* bar chart has exactly the two bars actual_last_4w and predicted_last_4w,
\* in that order; and the forecast table shows predicted_next_4w.
C17_TrendChartAndTable ==
    ForecastEmitted =>
        LET sentence == elements[Pos("Next Month Forecast") + 2]
            table == elements[Pos("Next Month Forecast") + 4]
        IN  /\ sentence.kind = "Paragraph"
            /\ sentence.text \in
                  {"Based on the AI model, an increase in alert counts is forecasted ...",
                   "Based on the AI model, an decrease in alert counts is forecasted ..."}
            /\ (sentence.text = "Based on the AI model, an increase in alert counts is forecasted ...")
                  = (oracle_data.predicted_next_4w > oracle_data.actual_last_4w)
            /\ Cardinality(ComparisonCharts) = 1
            /\ \A j \in ComparisonCharts :
                  /\ elements[j].chart = "create_bar_chart"
                  /\ Len(elements[j].args[1]) = 2
                  /\ elements[j].args[1][1] = oracle_data.actual_last_4w
                  /\ elements[j].args[1][2] = oracle_data.predicted_last_4w
                  /\ elements[j].args[2] = <<"Actual Last 4 Weeks", "Predicted Last 4 Weeks">>
            /\ table.kind = "Table"
            /\ Len(table.args) = 2
            /\ table.args[1] = <<"Expected Alerts">>
            /\ Len(table.args[2]) = 1
            /\ DecimalValue(table.args[2][1]) = oracle_data.predicted_next_4w

\* a built forecast section for equal counts: the sentence says "decrease"
C17_Witness ==
    /\ pc = "done"
    /\ ForecastEmitted
    /\ oracle_data.predicted_next_4w = 1
    /\ oracle_data.actual_last_4w = 1
    /\ oracle_data.predicted_last_4w = 0
    /\ elements[Pos("Next Month Forecast") + 2].text
          = "Based on the AI model, an decrease in alert counts is forecasted ..."
    /\ elements[Pos("Next Month Forecast") + 4].args[2] = << <<"1">> >>

\* =====================================================================
\* Properties of the aggregation engine (checked under SpecAgg)
\* =====================================================================
RECURSIVE SumOverSet(_, _)
SumOverSet(f, S) ==
    IF S = {} THEN 0
    ELSE LET k == CHOOSE x \in S : TRUE
         IN  f[k] + SumOverSet(f, S \ {k})

\* the count the mapping records for label k on its i-th listed date, 0 if none
RecordedCount(m, i, k) ==
    IF \E j \in DOMAIN m[i][2] : m[i][2][j][1] = k
    THEN m[i][2][CHOOSE j \in DOMAIN m[i][2] : m[i][2][j][1] = k][2]
    ELSE 0

\* sum of the counts the mapping records for label k over all dates
TotalOfLabel(m, k) == SumSeq([i \in DOMAIN m |-> RecordedCount(m, i, k)])

\* sum of every count of the mapping
TotalOfMapping(m) ==
    SumSeq([i \in DOMAIN m |-> SumSeq([j \in DOMAIN m[i][2] |-> m[i][2][j][2]])])

\* every label listed on some date of the mapping
AllLabelsOf(m) == {k \in Labels : \E i \in DOMAIN m : \E j \in DOMAIN m[i][2] : m[i][2][j][1] = k}

\* C8: aggregate_grouped_values(m) has exactly the union of the category
\* labels of m as keys, each value is the sum of that category's counts over
\* the dates (a date without the category contributes 0), and the values sum
\* to the total of all counts of m; the empty mapping gives the empty dict.
C8_AggregateSumsPerCategory ==
    agg_pc # "input" =>
        /\ DistinctKeys(aggregated)
        /\ DictKeys(aggregated) = AllLabelsOf(grouped_data_by_date)
        /\ \A i \in DOMAIN aggregated :
              aggregated[i][2] = TotalOfLabel(grouped_data_by_date, aggregated[i][1])
        /\ SumSeq(DictValues(aggregated)) = TotalOfMapping(grouped_data_by_date)
        /\ (grouped_data_by_date = <<>> => aggregated = <<>>)

\* a category occurs on two dates (its counts are added) and another one on
\* only one of the two dates (the other date contributes 0)
C8_Witness ==
    /\ agg_pc # "input"
    /\ Len(grouped_data_by_date) = 2
    /\ \E k \in Labels :
          /\ RecordedCount(grouped_data_by_date, 1, k) > 0
          /\ RecordedCount(grouped_data_by_date, 2, k) > 0
          /\ DictGet(aggregated, k, 0) >= 2
    /\ \E k \in Labels :
          /\ k \in DictKeys(grouped_data_by_date[1][2])
          /\ k \notin DictKeys(grouped_data_by_date[2][2])
          /\ k \in DictKeys(aggregated)

IsAscending(s) == \A i, j \in DOMAIN s : i < j => s[i] < s[j]

\* index, in the mapping as listed, of the date that x_values puts at i
ListedAt(m, date) == CHOOSE i \in DOMAIN m : m[i][1] = date

\* common part of the statements about prepare_multiline_grouped_data:
\* the x-axis is the date keys sorted ascending and every series is as long
\* as the x-axis
AxisAndLengths ==
    /\ IsAscending(multiline.x_values)
    /\ {multiline.x_values[i] : i \in DOMAIN multiline.x_values}
          = {grouped_data_by_date[i][1] : i \in DOMAIN grouped_data_by_date}
    /\ Len(multiline.x_values) = Len(grouped_data_by_date)
    /\ \A k \in DOMAIN multiline.y_series :
          DOMAIN multiline.y_series[k] = DOMAIN multiline.x_values
    /\ (grouped_data_by_date = <<>> =>
          /\ multiline.x_values = <<>>
          /\ DOMAIN multiline.y_series = {})

NoneLikeCount(day) ==
    LET S == {j \in DOMAIN day : day[j][1] \in {"null", "None"}}
    IN  IF S = {} THEN 0 ELSE day[CHOOSE j \in S : \A l \in S : l <= j][2]

C10_RenameLosesNoData ==
    agg_pc = "prepared" =>
        /\ "null" \notin DOMAIN multiline.y_series
        /\ SumOverSet([k \in DOMAIN multiline.y_series |-> SumSeq(multiline.y_series[k])],
                      DOMAIN multiline.y_series)
              = TotalOfMapping(grouped_data_by_date)

====
